---- MODULE Spec2Model ----
(***************************************************************************)
(* Model of hoa_mode_manager::ModeEngine (src/src/engine/mode_manager.cpp): *)
(* the game-mode stack with deferred Push/Pop requests, the fade-driven     *)
(* commit in Update() and the callbacks dispatched to the active mode.      *)
(*                                                                          *)
(* A game mode (a GameMode pointer) is an integer 1..MaxModes; a sequence   *)
(* holds the vector's elements front to back: Last(s) is vector::back().    *)
(* The variables op, trace, committed, frame, pre, pushed, resets, tops and  *)
(* deletes are history variables: they record what the last call was, what  *)
(* it dispatched and the state it was called in, and have no counterpart    *)
(* among the members.                                                       *)
(*                                                                          *)
(* The skill-graph window of the menu (src/unnamed/part_000) is modelled    *)
(* beside it, with variables of its own: its activation, its two states'    *)
(* handlers and the purchase of a node.                                     *)
(***************************************************************************)
EXTENDS Integers, Sequences, FiniteSets

\* Number of distinct GameMode objects the callers create.
MaxModes == 3
\* Number of requests (Push, Pop, PopAll, SingletonInitialize) between two commits.
MaxFrame == 3

FADE_IN_OUT_TIME == 800

Modes == 1..MaxModes
\* The null pointer: no mode.
NULL == 0
\* What _game_stack.back() designates when the vector is empty.
InvalidMode == 0 - 1

VARIABLES
    game_stack,         \* _game_stack
    push_stack,         \* _push_stack
    pop_count,          \* _pop_count
    state_change,       \* _state_change
    fade_out,           \* _fade_out
    fade_out_finished,  \* _fade_out_finished
    fade_in,            \* _fade_in
    fading,             \* VideoManager->IsFading()
    lastTransitional,   \* VideoManager->IsLastFadeTransitional()
    exit_requested,     \* SystemManager->ExitGame() was called
    crashed,            \* the process died on an invalid access
    pushed,             \* modes handed to Push so far
    op,                 \* the last call made on the manager
    trace,              \* what the last call dispatched, in order
    committed,          \* the last call was an Update() that entered the commit block
    frame,              \* requests made since the last commit
    pre,                \* the state the last call was made in
    resets,             \* per mode, the Reset() calls it has received
    tops,               \* per mode, the commits that left it on top
    deletes,            \* per mode, the times it was deleted
    active,             \* SkillGraphWindow::_active
    skillgraph_state,   \* SkillGraphWindow::_skillgraph_state
    selected_character, \* SkillGraphWindow::_selected_character
    selected_node_id,   \* SkillGraphWindow::_selected_node_id
    character_node_id,  \* SkillGraphWindow::_character_node_id
    GlobalManager,      \* what the window reads through GlobalManager
    wop,                \* the last call made on the window
    wtrace,             \* what that call dispatched, in order
    wpre                \* the window as that call found it

mgr == <<game_stack, push_stack, pop_count, state_change, fade_out,
         fade_out_finished, fade_in>>
video == <<fading, lastTransitional>>
hist == <<op, trace, committed, frame, pre, resets, tops, deletes>>
engine == <<mgr, video, exit_requested, crashed, pushed, hist>>
window == <<active, skillgraph_state, selected_character, selected_node_id,
            character_node_id>>
win == <<window, GlobalManager, wop, wtrace, wpre>>
vars == <<engine, win>>

Last(s) == s[Len(s)]
Front(s) == SubSeq(s, 1, Len(s) - 1)
Max(a, b) == IF a > b THEN a ELSE b

Ev(e, a) == [ev |-> e, arg |-> a]
\* The events named e of a trace, in order, and whether there is one.
Only(t, e) == SelectSeq(t, LAMBDA x : x.ev = e)
Has(t, e) == Only(t, e) # <<>>
Call(n, gm, fo, fi) ==
    [name |-> n, gm |-> gm, fade_out |-> fo, fade_in |-> fi, index |-> 0]
\* A call that takes an index.
Query(n, i) == [Call(n, NULL, FALSE, FALSE) EXCEPT !.index = i]

\* The manager exists and its process runs.
Running == ~crashed /\ op.name # "~ModeEngine"

Snapshot ==
    [game_stack |-> game_stack, push_stack |-> push_stack, pop_count |-> pop_count,
     state_change |-> state_change, fade_out |-> fade_out,
     fade_out_finished |-> fade_out_finished, fade_in |-> fade_in,
     fading |-> fading, lastTransitional |-> lastTransitional,
     exit_requested |-> exit_requested, op |-> op, frame |-> frame,
     committed |-> committed]

\* The counters after a call, from what the call dispatched and left on top.
Tally ==
    /\ resets' = [m \in Modes |->
                    resets[m] + Len(SelectSeq(trace', LAMBDA x : x = Ev("Reset", m)))]
    /\ tops' = [m \in Modes |->
                  IF committed' /\ game_stack' # <<>> /\ Last(game_stack') = m
                  THEN tops[m] + 1 ELSE tops[m]]
    /\ deletes' = [m \in Modes |->
                     deletes[m] + Len(SelectSeq(trace', LAMBDA x : x = Ev("Delete", m)))]

\* ModeEngine::ModeEngine(): _fade_in is not initialised by the constructor.
ModeEngineInit ==
    /\ game_stack = <<>>
    /\ push_stack = <<>>
    /\ pop_count = 0
    /\ state_change = FALSE
    /\ fade_out = FALSE
    /\ fade_out_finished = FALSE
    /\ fade_in \in BOOLEAN
    /\ fading = FALSE
    /\ lastTransitional = FALSE
    /\ exit_requested = FALSE
    /\ crashed = FALSE
    /\ pushed = {}
    /\ op = Call("Construct", NULL, FALSE, FALSE)
    /\ trace = <<>>
    /\ committed = FALSE
    /\ frame = <<>>
    /\ resets = [m \in Modes |-> 0]
    /\ tops = [m \in Modes |-> 0]
    /\ deletes = [m \in Modes |-> 0]
    /\ pre = [game_stack |-> <<>>, push_stack |-> <<>>, pop_count |-> 0,
              state_change |-> FALSE, fade_out |-> FALSE,
              fade_out_finished |-> FALSE, fade_in |-> fade_in,
              fading |-> FALSE, lastTransitional |-> FALSE,
              exit_requested |-> FALSE,
              op |-> Call("Construct", NULL, FALSE, FALSE), frame |-> <<>>,
              committed |-> FALSE]

----------------------------------------------------------------------------
\* SkillGraphWindow (src/unnamed/part_000) and what it reads.

\* The ids of the skill graph's nodes are 0..MaxNode.
MaxNode == 2
Nodes == 0..MaxNode
\* std::numeric_limits<uint32_t>::max(), the invalid node id: the value that
\* -1 converts to, and the id of no node.
InvalidNode == 0 - 1

SKILLGRAPH_STATE_NONE == "NONE"
SKILLGRAPH_STATE_CHAR == "CHAR"
SKILLGRAPH_STATE_LIST == "LIST"

\* The one character of the party, as a GlobalCharacter pointer.
TheCharacter == 1

\* Sequences of node ids without repetition.
NodeLists ==
    {l \in UNION {[1..n -> Nodes] : n \in 0..(MaxNode + 1)} :
        \A i, j \in 1..Len(l) : i # j => l[i] # l[j]}

\* The character, the skill graph and the inventory are outside the window:
\* GetObtainedSkillNodes(), GetSkillNodeLocation(), whether the unspent
\* experience points suffice for a node (xp) and the count of the item in the
\* inventory are values the window is given.
Globals ==
    [obtained : NodeLists, location : Nodes, xp : {0, MaxNode}, items : {0, 1}]

\* The skill graph is a chain: node n is linked to n + 1 as its child.
GetChildrenNodeLinks(node) == IF node < MaxNode THEN <<node + 1>> ELSE <<>>
GetParentNodeLinks(node) == IF node > 0 THEN <<node - 1>> ELSE <<>>
\* A node costs as many experience points as its id, and the last node an item.
GetExperiencePointsNeeded(node) == node
GetItemsNeeded(node) == IF node = MaxNode THEN <<[id |-> 1, count |-> 1]>> ELSE <<>>

\* What InputManager reports in a frame; side is a left or a right press.
NoPress == [cancel |-> FALSE, confirm |-> FALSE, up |-> FALSE, down |-> FALSE,
            side |-> FALSE]

\* A call on the window: its name, SetActive's argument, Update()'s input.
WindowOp(n, is_active_state, input) ==
    [name |-> n, is_active_state |-> is_active_state, input |-> input]

WindowSnapshot ==
    [active |-> active, skillgraph_state |-> skillgraph_state,
     selected_character |-> selected_character,
     selected_node_id |-> selected_node_id,
     character_node_id |-> character_node_id]

\* SkillGraphWindow::SkillGraphWindow()
SkillGraphWindowInit ==
    /\ skillgraph_state = SKILLGRAPH_STATE_NONE
    /\ selected_character = NULL
    /\ selected_node_id = InvalidNode
    /\ character_node_id = InvalidNode
    /\ active = FALSE
    /\ wop = WindowOp("Construct", FALSE, NoPress)
    /\ wtrace = <<>>
    /\ wpre = [active |-> FALSE, skillgraph_state |-> SKILLGRAPH_STATE_NONE,
               selected_character |-> NULL, selected_node_id |-> InvalidNode,
               character_node_id |-> InvalidNode]

\* The manager and the window constructed; the window's game is not looked at.
Init ==
    /\ ModeEngineInit
    /\ SkillGraphWindowInit
    /\ GlobalManager = [obtained |-> <<>>, location |-> 0, xp |-> 0, items |-> 0]

\* The same with any character, inventory and experience behind the window.
InitSkillGraph ==
    /\ ModeEngineInit
    /\ ~fade_in
    /\ SkillGraphWindowInit
    /\ GlobalManager \in Globals

----------------------------------------------------------------------------
\* The transition subsystem and the system manager.

\* VideoManager->_StartTransitionFadeOut(Color::black, time)
StartTransitionFadeOut(time) ==
    /\ fading' = (time > 0)
    /\ lastTransitional' = TRUE

\* VideoManager->_TransitionalFadeIn(time)
TransitionalFadeIn(time) ==
    /\ fading' = (time > 0)
    /\ lastTransitional' = TRUE

\* The running fade reaches its end.
FadeEnds ==
    /\ Running
    /\ fading
    /\ fading' = FALSE
    /\ UNCHANGED <<mgr, lastTransitional, exit_requested, crashed, pushed, hist, win>>

\* Some other part of the game starts a fade that is not a mode transition.
OtherFade ==
    /\ Running
    /\ ~fading
    /\ fading' = TRUE
    /\ lastTransitional' = FALSE
    /\ UNCHANGED <<mgr, exit_requested, crashed, pushed, hist, win>>

----------------------------------------------------------------------------
\* The requests.

\* The if/else without its else branch setting _fade_out_finished.
FadeFlagsUnfinished(fo) == [fade_out |-> fo, fade_out_finished |-> FALSE]

\* The if/else with _fade_out_finished set on both branches.
FadeFlagsBoth(fo) == [fade_out |-> fo, fade_out_finished |-> TRUE]

\* The if/else on fade_out shared by Pop and Push: _fade_out, _fade_out_finished.
FadeFlags(fo) == [fade_out |-> fo, fade_out_finished |-> ~fo]

\* The fade a request starts.
RequestFade(fo) ==
    IF fo
    THEN /\ StartTransitionFadeOut(FADE_IN_OUT_TIME)
         /\ trace' = <<Ev("FadeOut", FADE_IN_OUT_TIME)>>
    ELSE /\ UNCHANGED video
         /\ trace' = <<>>

Pop(fo, fi) ==
    /\ Running
    /\ Len(frame) < MaxFrame
    /\ fade_in' = fi
    /\ pop_count' = pop_count + 1
    /\ state_change' = TRUE
    /\ RequestFade(fo)
    /\ fade_out' = FadeFlags(fo).fade_out
    /\ fade_out_finished' = FadeFlags(fo).fade_out_finished
    /\ op' = Call("Pop", NULL, fo, fi)
    /\ frame' = Append(frame, Ev("Pop", NULL))
    /\ committed' = FALSE
    /\ pre' = Snapshot
    /\ UNCHANGED <<game_stack, push_stack, exit_requested, crashed, pushed>>
    /\ Tally
    /\ UNCHANGED win

\* A draining loop of SingletonInitialize: the modes deleted, in order.
RECURSIVE DeleteAll(_)
DeleteAll(stack) ==
    IF stack = <<>> THEN <<>>
    ELSE <<Ev("Delete", Last(stack))>> \o DeleteAll(Front(stack))

\* The depth of the stack counted one short.
PopAllCountShort(stack) == IF stack = <<>> THEN 0 ELSE Len(stack) - 1

\* The value PopAll stores in _pop_count.
PopAllCount(stack) == Len(stack)

\* PopAll as it would be if it emptied the game stack at once.
PopAllEager ==
    /\ Running
    /\ Len(frame) < MaxFrame
    /\ game_stack' = <<>>
    /\ pop_count' = 0
    /\ op' = Call("PopAll", NULL, FALSE, FALSE)
    /\ trace' = DeleteAll(game_stack)
    /\ frame' = Append(frame, Ev("PopAll", NULL))
    /\ committed' = FALSE
    /\ pre' = Snapshot
    /\ UNCHANGED <<push_stack, state_change, fade_out, fade_out_finished,
                   fade_in, video, exit_requested, crashed, pushed>>
    /\ Tally
    /\ UNCHANGED win

PopAll ==
    /\ Running
    /\ Len(frame) < MaxFrame
    /\ pop_count' = PopAllCount(game_stack)
    /\ op' = Call("PopAll", NULL, FALSE, FALSE)
    /\ trace' = <<>>
    /\ frame' = Append(frame, Ev("PopAll", NULL))
    /\ committed' = FALSE
    /\ pre' = Snapshot
    /\ UNCHANGED <<game_stack, push_stack, state_change, fade_out, fade_out_finished,
                   fade_in, video, exit_requested, crashed, pushed>>
    /\ Tally
    /\ UNCHANGED win

\* _push_stack.push_back(gm)
Enqueue(pstack, gm) == Append(pstack, gm)

Push(gm, fo, fi) ==
    /\ Running
    /\ Len(frame) < MaxFrame
    /\ push_stack' = Enqueue(push_stack, gm)
    /\ state_change' = TRUE
    /\ fade_in' = fi
    /\ RequestFade(fo)
    /\ fade_out' = FadeFlags(fo).fade_out
    /\ fade_out_finished' = FadeFlags(fo).fade_out_finished
    /\ pushed' = pushed \cup {gm}
    /\ op' = Call("Push", gm, fo, fi)
    /\ frame' = Append(frame, Ev("Push", gm))
    /\ committed' = FALSE
    /\ pre' = Snapshot
    /\ UNCHANGED <<game_stack, pop_count, exit_requested, crashed>>
    /\ Tally
    /\ UNCHANGED win

\* SingletonInitialize as it would be if it also reset the flags the
\* constructor sets.
SingletonInitializeResetsFlags ==
    /\ Running
    /\ Len(frame) < MaxFrame
    /\ game_stack' = <<>>
    /\ push_stack' = <<>>
    /\ pop_count' = 0
    /\ state_change' = FALSE
    /\ fade_out' = FALSE
    /\ fade_out_finished' = FALSE
    /\ op' = Call("SingletonInitialize", NULL, FALSE, FALSE)
    /\ trace' = DeleteAll(game_stack) \o DeleteAll(push_stack)
    /\ frame' = Append(frame, Ev("SingletonInitialize", NULL))
    /\ committed' = FALSE
    /\ pre' = Snapshot
    /\ UNCHANGED <<fade_in, video, exit_requested, crashed, pushed>>
    /\ Tally
    /\ UNCHANGED win

SingletonInitialize ==
    /\ Running
    /\ Len(frame) < MaxFrame
    /\ game_stack' = <<>>
    /\ push_stack' = <<>>
    /\ pop_count' = 0
    /\ op' = Call("SingletonInitialize", NULL, FALSE, FALSE)
    /\ trace' = DeleteAll(game_stack) \o DeleteAll(push_stack)
    /\ frame' = Append(frame, Ev("SingletonInitialize", NULL))
    /\ committed' = FALSE
    /\ pre' = Snapshot
    /\ UNCHANGED <<state_change, fade_out, fade_out_finished, fade_in, video,
                   exit_requested, crashed, pushed>>
    /\ Tally
    /\ UNCHANGED win

----------------------------------------------------------------------------
\* ModeEngine::Update()

\* The check without the query whether the fade is still running.
FadeOutDoneEarly(fo, transitional, isFading) == fo /\ transitional

\* "Check whether the fade out is done."
FadeOutDone(fo, transitional, isFading) == fo /\ transitional /\ ~isFading

\* The condition under which Update() adjusts the game stack.
CommitNeeded(finished, change) == finished /\ change

\* The pop loop without the delete of the mode it takes off the stack.
RECURSIVE PopLoopLeak(_, _, _)
PopLoopLeak(stack, count, evs) ==
    IF count = 0
    THEN [stack |-> stack, count |-> count, evs |-> evs]
    ELSE IF stack = <<>>
         THEN [stack |-> stack, count |-> 0,
               evs |-> Append(evs, Ev("WarnExcessPop", NULL))]
         ELSE PopLoopLeak(Front(stack), count - 1, evs)

\* The pop loop without the reset of the counter when the stack runs out.
RECURSIVE PopLoopKeepCount(_, _, _)
PopLoopKeepCount(stack, count, evs) ==
    IF count = 0
    THEN [stack |-> stack, count |-> count, evs |-> evs]
    ELSE IF stack = <<>>
         THEN [stack |-> stack, count |-> count,
               evs |-> Append(evs, Ev("WarnExcessPop", NULL))]
         ELSE PopLoopKeepCount(Front(stack), count - 1,
                               Append(evs, Ev("Delete", Last(stack))))

\* The pop loop: the stack and the counter it leaves, and what it deleted or reported.
RECURSIVE PopLoop(_, _, _)
PopLoop(stack, count, evs) ==
    IF count = 0
    THEN [stack |-> stack, count |-> count, evs |-> evs]
    ELSE IF stack = <<>>
         THEN [stack |-> stack, count |-> 0,
               evs |-> Append(evs, Ev("WarnExcessPop", NULL))]
         ELSE PopLoop(Front(stack), count - 1, Append(evs, Ev("Delete", Last(stack))))

\* The push loop: takes the back of the push stack until it is empty.
RECURSIVE PushLoop(_, _)
PushLoop(stack, pstack) ==
    IF pstack = <<>> THEN stack
    ELSE PushLoop(Append(stack, Last(pstack)), Front(pstack))

\* The two loops in the other order: the pushes first.
CommitStackPushFirst(stack, pstack, count) ==
    LET p == PopLoop(PushLoop(stack, pstack), count, <<>>)
    IN  [stack |-> p.stack, count |-> p.count, evs |-> p.evs]

\* The two loops of the commit block, the pops first.
CommitStack(stack, pstack, count) ==
    LET p == PopLoop(stack, count, <<>>)
    IN  [stack |-> PushLoop(p.stack, pstack), count |-> p.count, evs |-> p.evs]

\* The check reporting the empty stack without asking the game to exit.
EmptyCheckNoExit(stack) == IF stack = <<>> THEN <<Ev("WarnEmpty", NULL)>> ELSE <<>>

\* "Make sure there is a game mode on the stack": what the check dispatches.
EmptyCheck(stack) ==
    IF stack = <<>> THEN <<Ev("WarnEmpty", NULL), Ev("ExitGame", NULL)>> ELSE <<>>

\* Reset() called on the front of the game stack.
ResetTargetFront(stack) == IF stack = <<>> THEN InvalidMode ELSE stack[1]

\* _game_stack.back()->Reset(): the object Reset() is called on.
ResetTarget(stack) == IF stack = <<>> THEN InvalidMode ELSE Last(stack)

\* The fade in always animated.
FadeInTimeAlways(fi) == FADE_IN_OUT_TIME

\* The fade in, the timers: the end of the commit block.
FadeInTime(fi) == IF fi THEN FADE_IN_OUT_TIME ELSE 0

CommitTail(fi) ==
    <<Ev("FadeIn", FadeInTime(fi)), Ev("ExamineSystemTimers", NULL),
      Ev("InitializeUpdateTimer", NULL)>>

\* Update() called on the front of the game stack.
TopUpdateFront(stack) == IF stack = <<>> THEN <<>> ELSE <<Ev("Update", stack[1])>>

\* "Call the Update function on the top stack mode"
TopUpdate(stack) == IF stack = <<>> THEN <<>> ELSE <<Ev("Update", Last(stack))>>

\* Update() when the commit block is skipped.
UpdateNoCommit(fo1, fin1) ==
    /\ fade_out' = fo1
    /\ fade_out_finished' = fin1
    /\ trace' = TopUpdate(game_stack)
    /\ committed' = FALSE
    /\ UNCHANGED <<game_stack, push_stack, pop_count, state_change, fade_in, video,
                   exit_requested, crashed, frame>>

\* Update() through the whole commit block. With the game stack empty after the
\* loops this is the outcome in which the call of Reset() through back() of the
\* empty vector returns: Reset() has then run on an invalid object.
UpdateCommit(fo1, p, stack) ==
    /\ game_stack' = stack
    /\ push_stack' = <<>>
    /\ pop_count' = p.count
    /\ state_change' = FALSE
    /\ fade_out' = fo1
    /\ fade_out_finished' = FALSE
    /\ TransitionalFadeIn(FadeInTime(fade_in))
    /\ exit_requested' = (exit_requested \/ Has(EmptyCheck(stack), "ExitGame"))
    /\ trace' = p.evs \o EmptyCheck(stack) \o <<Ev("Reset", ResetTarget(stack))>>
                  \o CommitTail(fade_in) \o TopUpdate(stack)
    /\ committed' = TRUE
    /\ frame' = <<>>
    /\ UNCHANGED <<fade_in, crashed>>

\* Update() through the commit block, the game stack empty after the loops:
\* _game_stack.back() of an empty vector is undefined, and this is the outcome
\* in which the call of Reset() through it ends the process.
UpdateCrash(fo1, fin1, p, stack) ==
    /\ game_stack' = stack
    /\ push_stack' = <<>>
    /\ pop_count' = p.count
    /\ fade_out' = fo1
    /\ fade_out_finished' = fin1
    /\ exit_requested' = (exit_requested \/ Has(EmptyCheck(stack), "ExitGame"))
    /\ crashed' = TRUE
    /\ trace' = p.evs \o EmptyCheck(stack) \o <<Ev("InvalidAccess", InvalidMode)>>
    /\ committed' = TRUE
    /\ frame' = <<>>
    /\ UNCHANGED <<state_change, fade_in, video>>

Update ==
    /\ Running
    /\ LET done == FadeOutDone(fade_out, lastTransitional, fading)
           fo1 == IF done THEN FALSE ELSE fade_out
           fin1 == IF done THEN TRUE ELSE fade_out_finished
           p == CommitStack(game_stack, push_stack, pop_count)
           stack == p.stack
       IN  IF CommitNeeded(fin1, state_change)
           THEN \/ UpdateCommit(fo1, p, stack)
                \/ stack = <<>> /\ UpdateCrash(fo1, fin1, p, stack)
           ELSE UpdateNoCommit(fo1, fin1)
    /\ op' = Call("Update", NULL, FALSE, FALSE)
    /\ pre' = Snapshot
    /\ UNCHANGED pushed
    /\ Tally
    /\ UNCHANGED win

----------------------------------------------------------------------------
\* Update() whose callback into the top mode (line 269) calls Push or Pop.

\* The members and the transition subsystem as a record, and what Update() has
\* dispatched, when it reaches line 268: the commit block is over or was skipped.
AtCallback ==
    LET done == FadeOutDone(fade_out, lastTransitional, fading)
        fo1 == IF done THEN FALSE ELSE fade_out
        fin1 == IF done THEN TRUE ELSE fade_out_finished
        p == CommitStack(game_stack, push_stack, pop_count)
    IN  IF CommitNeeded(fin1, state_change)
        THEN [game_stack |-> p.stack, push_stack |-> <<>>, pop_count |-> p.count,
              state_change |-> FALSE, fade_out |-> fo1, fade_out_finished |-> FALSE,
              fade_in |-> fade_in, fading |-> (FadeInTime(fade_in) > 0),
              lastTransitional |-> TRUE, committed |-> TRUE, frame |-> <<>>,
              trace |-> p.evs \o EmptyCheck(p.stack)
                          \o <<Ev("Reset", ResetTarget(p.stack))>>
                          \o CommitTail(fade_in)]
        ELSE [game_stack |-> game_stack, push_stack |-> push_stack,
              pop_count |-> pop_count, state_change |-> state_change,
              fade_out |-> fo1, fade_out_finished |-> fin1, fade_in |-> fade_in,
              fading |-> fading, lastTransitional |-> lastTransitional,
              committed |-> FALSE, frame |-> frame, trace |-> <<>>]

\* The fade a request starts, on the record.
FadeOn(s, fo) ==
    IF fo
    THEN [s EXCEPT !.fading = (FADE_IN_OUT_TIME > 0), !.lastTransitional = TRUE,
                   !.trace = Append(@, Ev("FadeOut", FADE_IN_OUT_TIME))]
    ELSE s

\* Push as it would be if it put the mode on the game stack at once.
PushOnInline(s, gm, fo, fi) ==
    FadeOn([s EXCEPT !.game_stack = Append(@, gm),
                     !.state_change = TRUE,
                     !.fade_in = fi,
                     !.fade_out = FadeFlags(fo).fade_out,
                     !.fade_out_finished = FadeFlags(fo).fade_out_finished,
                     !.trace = Append(@, Ev("Push", gm)),
                     !.frame = Append(@, Ev("Push", gm))], fo)

\* ModeEngine::Push(gm, fade_out, fade_in) called in the state s.
PushOn(s, gm, fo, fi) ==
    FadeOn([s EXCEPT !.push_stack = Enqueue(@, gm),
                     !.state_change = TRUE,
                     !.fade_in = fi,
                     !.fade_out = FadeFlags(fo).fade_out,
                     !.fade_out_finished = FadeFlags(fo).fade_out_finished,
                     !.trace = Append(@, Ev("Push", gm)),
                     !.frame = Append(@, Ev("Push", gm))], fo)

\* ModeEngine::Pop(fade_out, fade_in) called in the state s.
PopOn(s, fo, fi) ==
    FadeOn([s EXCEPT !.fade_in = fi,
                     !.pop_count = @ + 1,
                     !.state_change = TRUE,
                     !.fade_out = FadeFlags(fo).fade_out,
                     !.fade_out_finished = FadeFlags(fo).fade_out_finished,
                     !.trace = Append(@, Ev("Pop", NULL)),
                     !.frame = Append(@, Ev("Pop", NULL))], fo)

\* Update() with the top mode's Update() making the request that turns the
\* state at the callback into s; the callback returns and so does Update().
UpdateCalling(call, s) ==
    /\ Running
    /\ AtCallback.game_stack # <<>>
    /\ Len(AtCallback.frame) < MaxFrame
    /\ game_stack' = s.game_stack
    /\ push_stack' = s.push_stack
    /\ pop_count' = s.pop_count
    /\ state_change' = s.state_change
    /\ fade_out' = s.fade_out
    /\ fade_out_finished' = s.fade_out_finished
    /\ fade_in' = s.fade_in
    /\ fading' = s.fading
    /\ lastTransitional' = s.lastTransitional
    /\ trace' = s.trace
    /\ committed' = s.committed
    /\ frame' = s.frame
    /\ op' = call
    /\ pre' = Snapshot
    /\ UNCHANGED <<exit_requested, crashed>>

UpdateCallingPush(gm, fo, fi) ==
    /\ UpdateCalling(Call("Update>Push", gm, fo, fi),
                     PushOn([AtCallback EXCEPT !.trace = @ \o TopUpdate(AtCallback.game_stack)],
                            gm, fo, fi))
    /\ pushed' = pushed \cup {gm}
    /\ Tally
    /\ UNCHANGED win

UpdateCallingPop(fo, fi) ==
    /\ UpdateCalling(Call("Update>Pop", NULL, fo, fi),
                     PopOn([AtCallback EXCEPT !.trace = @ \o TopUpdate(AtCallback.game_stack)],
                           fo, fi))
    /\ UNCHANGED pushed
    /\ Tally
    /\ UNCHANGED win

----------------------------------------------------------------------------
\* ModeEngine::~ModeEngine(): the two draining loops.
Destructor ==
    /\ Running
    /\ game_stack' = <<>>
    /\ push_stack' = <<>>
    /\ op' = Call("~ModeEngine", NULL, FALSE, FALSE)
    /\ trace' = DeleteAll(game_stack) \o DeleteAll(push_stack)
    /\ committed' = FALSE
    /\ pre' = Snapshot
    /\ UNCHANGED <<pop_count, state_change, fade_out, fade_out_finished, fade_in,
                   video, exit_requested, crashed, pushed, frame>>
    /\ Tally
    /\ UNCHANGED win

----------------------------------------------------------------------------
\* The draw calls and the lookups.

\* A draw call forwarded to the front of the game stack.
ForwardFront(stack, name) == IF stack = <<>> THEN <<>> ELSE <<Ev(name, stack[1])>>

\* "if (_game_stack.empty()) return; _game_stack.back()->Draw...();"
Forward(stack, name) == IF stack = <<>> THEN <<>> ELSE <<Ev(name, Last(stack))>>

\* A call that reads the game stack and assigns no member.
ReadOnly(call, dispatched) ==
    /\ Running
    /\ op' = call
    /\ trace' = dispatched
    /\ committed' = FALSE
    /\ pre' = Snapshot
    /\ UNCHANGED <<mgr, video, exit_requested, crashed, pushed, frame>>
    /\ Tally
    /\ UNCHANGED win

Draw == ReadOnly(Call("Draw", NULL, FALSE, FALSE), Forward(game_stack, "Draw"))

DrawEffects ==
    ReadOnly(Call("DrawEffects", NULL, FALSE, FALSE), Forward(game_stack, "DrawEffects"))

DrawPostEffects ==
    ReadOnly(Call("DrawPostEffects", NULL, FALSE, FALSE),
             Forward(game_stack, "DrawPostEffects"))

\* The tag of a mode that no child class replaced.
MODE_MANAGER_DUMMY_MODE == 0

\* GameMode::mode_type: the last mode constructed is one built by GameMode(),
\* the others are built by GameMode(mt) with tags of their own.
ModeType(gm) == IF gm = MaxModes THEN MODE_MANAGER_DUMMY_MODE ELSE gm

\* std::vector::at(pos), pos counted from 0: the element, or std::out_of_range.
At(stack, pos) ==
    IF pos < Len(stack) THEN Ev("Return", stack[pos + 1]) ELSE Ev("OutOfRange", pos)

\* The tag of the element instead of the element.
TypeOf(e) == IF e.ev = "Return" THEN Ev("ReturnType", ModeType(e.arg)) ELSE e

\* The index values the callers pass: 0, the depths, and beyond every depth.
Indices == 0..(MaxModes + 1)

\* ModeEngine::GetTop()
GetTopResult(stack) ==
    IF stack = <<>> THEN Ev("Return", NULL) ELSE Ev("Return", Last(stack))

GetTop == ReadOnly(Call("GetTop", NULL, FALSE, FALSE), <<GetTopResult(game_stack)>>)

\* ModeEngine::Get(index)
GetResult(stack, index) ==
    IF Len(stack) < index THEN Ev("Return", NULL) ELSE At(stack, Len(stack) - index)

Get(index) == ReadOnly(Query("Get", index), <<GetResult(game_stack, index)>>)

\* ModeEngine::GetGameType()
GetGameTypeResult(stack) ==
    IF stack = <<>> THEN Ev("ReturnType", MODE_MANAGER_DUMMY_MODE)
    ELSE Ev("ReturnType", ModeType(Last(stack)))

GetGameType ==
    ReadOnly(Call("GetGameType", NULL, FALSE, FALSE), <<GetGameTypeResult(game_stack)>>)

\* ModeEngine::GetGameType(index)
GetGameTypeIndexResult(stack, index) ==
    IF Len(stack) < index THEN Ev("ReturnType", MODE_MANAGER_DUMMY_MODE)
    ELSE TypeOf(At(stack, Len(stack) - index))

GetGameTypeIndex(index) ==
    ReadOnly(Query("GetGameType(index)", index),
             <<GetGameTypeIndexResult(game_stack, index)>>)

----------------------------------------------------------------------------
\* SkillGraphWindow: SetActive, Update and the two states' handlers.

\* No press, the presses of one key, and the presses of two keys in which the
\* handlers have to choose: cancel or an arrow together with confirm.
Inputs ==
    {NoPress,
     [NoPress EXCEPT !.cancel = TRUE], [NoPress EXCEPT !.confirm = TRUE],
     [NoPress EXCEPT !.up = TRUE], [NoPress EXCEPT !.down = TRUE],
     [NoPress EXCEPT !.side = TRUE],
     [NoPress EXCEPT !.cancel = TRUE, !.confirm = TRUE],
     [NoPress EXCEPT !.up = TRUE, !.confirm = TRUE],
     [NoPress EXCEPT !.down = TRUE, !.confirm = TRUE],
     [NoPress EXCEPT !.side = TRUE, !.confirm = TRUE]}
ArrowPress(input) == input.up \/ input.down \/ input.side

\* media.PlaySound("bump")
Bump == <<Ev("PlaySound", "bump")>>

\* The window as a record, with what the call has dispatched so far.
Window ==
    [active |-> active, skillgraph_state |-> skillgraph_state,
     selected_character |-> selected_character,
     selected_node_id |-> selected_node_id,
     character_node_id |-> character_node_id, trace |-> <<>>]

\* SetActive setting the CHAR state whatever its argument.
StateSetAlwaysChar(is_active_state) == SKILLGRAPH_STATE_CHAR

\* The state SetActive(is_active_state) sets.
StateSet(is_active_state) ==
    IF is_active_state THEN SKILLGRAPH_STATE_CHAR ELSE SKILLGRAPH_STATE_NONE

\* SkillGraphWindow::SetActive(is_active_state) on the record.
SetActiveOn(w, is_active_state) ==
    [w EXCEPT !.active = is_active_state,
              !.skillgraph_state = StateSet(is_active_state)]

\* SkillGraphWindow::SetCharacter(); found is what GetCharacterAtIndex returns.
SetCharacter(w, found) ==
    IF found = NULL
    THEN [w EXCEPT !.selected_character = NULL, !.selected_node_id = 0]
    ELSE [w EXCEPT !.selected_character = found,
                   !.selected_node_id = GlobalManager.location,
                   !.character_node_id = GlobalManager.location]

\* SkillGraphWindow::_UpdateSkillCharacterSelectState()
UpdateSkillCharacterSelectState(w, input, found) ==
    IF input.cancel THEN SetActiveOn(w, FALSE)
    ELSE IF input.up THEN w
    ELSE IF input.down THEN w
    ELSE IF input.confirm
         THEN IF found = NULL
              THEN SetCharacter(w, found)
              ELSE [SetCharacter(w, found) EXCEPT
                        !.skillgraph_state = SKILLGRAPH_STATE_LIST]
         ELSE w

\* static isNodeWithin(node_links, node_id)
isNodeWithin(node_links, node_id) ==
    \E i \in 1..Len(node_links) : node_links[i] = node_id

\* The loop over obtained_nodes of _HandleNodeTransaction, in the list's order:
\* it returns at the node itself and breaks at the first neighbour.
RECURSIVE ObtainedLoop(_, _)
ObtainedLoop(obtained_nodes, node) ==
    IF obtained_nodes = <<>> THEN "none"
    ELSE IF node = Head(obtained_nodes) THEN "obtained"
    ELSE IF \/ isNodeWithin(GetChildrenNodeLinks(node), Head(obtained_nodes))
            \/ isNodeWithin(GetParentNodeLinks(node), Head(obtained_nodes))
         THEN "neighbor"
         ELSE ObtainedLoop(Tail(obtained_nodes), node)

\* inventory_handler.GetGlobalObject(id)->GetCount(), NULL if there is no object.
GetGlobalObject(id) == IF GlobalManager.items = 0 THEN NULL ELSE GlobalManager.items

\* The loop over the items needed: one is missing or too few.
ItemsMissing(node) ==
    \E i \in 1..Len(GetItemsNeeded(node)) :
        \/ GetGlobalObject(GetItemsNeeded(node)[i].id) = NULL
        \/ GetGlobalObject(GetItemsNeeded(node)[i].id) < GetItemsNeeded(node)[i].count

\* SkillGraphWindow::_HandleNodeTransaction(): what it dispatches.
HandleNodeTransaction(w, input) ==
    IF ~input.confirm THEN <<>>
    ELSE IF w.selected_character = NULL THEN <<>>
    ELSE IF GlobalManager.xp < GetExperiencePointsNeeded(w.selected_node_id) THEN Bump
    ELSE IF ItemsMissing(w.selected_node_id) THEN Bump
    ELSE IF GlobalManager.location = w.selected_node_id THEN Bump
    ELSE IF ObtainedLoop(GlobalManager.obtained, w.selected_node_id) # "neighbor"
         THEN Bump
         ELSE <<Ev("AddObtainedSkillNode", w.selected_node_id),
                Ev("PlaySound", "confirm"),
                Ev("ReloadCharacterWindows", NULL)>>

\* SkillGraphWindow::_Navigate(): target is the displayed node that the
\* geometry of the press points at; the selection moves to it if it is among
\* the links of the selected node.
NavigateTargets(node) ==
    {GetChildrenNodeLinks(node)[i] : i \in 1..Len(GetChildrenNodeLinks(node))}
        \cup {GetParentNodeLinks(node)[i] : i \in 1..Len(GetParentNodeLinks(node))}

Navigate(w, input, target) ==
    IF ~ArrowPress(input) THEN w
    ELSE IF target \in NavigateTargets(w.selected_node_id)
         THEN [w EXCEPT !.selected_node_id = target]
         ELSE w

\* SkillGraphWindow::_UpdateSkillGraphListState()
UpdateSkillGraphListState(w, input, target) ==
    IF input.cancel
    THEN [w EXCEPT !.skillgraph_state = SKILLGRAPH_STATE_CHAR]
    ELSE LET t == HandleNodeTransaction(w, input)
             w1 == [w EXCEPT !.trace = t,
                             !.character_node_id =
                                 IF Has(t, "AddObtainedSkillNode")
                                 THEN GlobalManager.location ELSE @]
         IN  Navigate(w1, input, target)

\* SkillGraphWindow::Update() on the record.
UpdateOn(w, input, found, target) ==
    IF ~w.active THEN w
    ELSE IF w.skillgraph_state = SKILLGRAPH_STATE_CHAR
         THEN UpdateSkillCharacterSelectState(w, input, found)
         ELSE IF w.skillgraph_state = SKILLGRAPH_STATE_LIST
              THEN UpdateSkillGraphListState(w, input, target)
              ELSE w

\* A call on the window that leaves it as the record w.
WindowCall(call, w) ==
    /\ active' = w.active
    /\ skillgraph_state' = w.skillgraph_state
    /\ selected_character' = w.selected_character
    /\ selected_node_id' = w.selected_node_id
    /\ character_node_id' = w.character_node_id
    /\ wtrace' = w.trace
    /\ wop' = call
    /\ wpre' = WindowSnapshot
    /\ UNCHANGED <<engine, GlobalManager>>

SetActive(is_active_state) ==
    WindowCall(WindowOp("SetActive", is_active_state, NoPress),
               SetActiveOn(Window, is_active_state))

SkillGraphUpdate(input, found, target) ==
    WindowCall(WindowOp("Update", FALSE, input),
               UpdateOn(Window, input, found, target))

\* The menu and the frame driver: SetActive and Update with any input, any
\* answer of the party and any node picked by the navigation.
NextSkillGraph ==
    \/ \E is_active_state \in BOOLEAN : SetActive(is_active_state)
    \/ \E input \in Inputs : \E found \in {NULL, TheCharacter} :
           \E target \in Nodes :
               SkillGraphUpdate(input, found, target)

SpecSkillGraph == InitSkillGraph /\ [][NextSkillGraph]_vars

----------------------------------------------------------------------------
\* The caller's side of Push: each mode is a newly constructed object, and
\* objects are numbered in the order they are constructed.
NewModes == {gm \in Modes : gm = Cardinality(pushed) + 1}

Next ==
    \/ \E gm \in NewModes : \E fo, fi \in BOOLEAN : Push(gm, fo, fi)
    \/ \E fo, fi \in BOOLEAN : Pop(fo, fi)
    \/ PopAll
    \/ SingletonInitialize
    \/ Update
    \/ FadeEnds

Spec == Init /\ [][Next]_vars

\* Update() reads the transition subsystem only while _fade_out is set (line
\* 217), and a request with fade_out starts a transitional fade, so a fade
\* started elsewhere changes what the manager does only by delaying a commit
\* it waits for. Next has the transition's own fades; the fades of the rest of
\* the game are in NextFade, with the requests that start fades.
NextFade ==
    \/ \E gm \in NewModes : \E fo, fi \in BOOLEAN : Push(gm, fo, fi)
    \/ \E fo, fi \in BOOLEAN : Pop(fo, fi)
    \/ Update
    \/ FadeEnds
    \/ OtherFade

SpecFade == Init /\ [][NextFade]_vars

\* The requests made from the top mode's Update(), with requests from outside
\* that build the stack, the commit and the transition's fades.
NextNested ==
    \/ \E gm \in NewModes : Push(gm, FALSE, FALSE)
    \/ Update
    \/ FadeEnds
    \/ \E gm \in NewModes : \E fo, fi \in BOOLEAN : UpdateCallingPush(gm, fo, fi)
    \/ \E fo, fi \in BOOLEAN : UpdateCallingPop(fo, fi)

SpecNested == Init /\ [][NextNested]_vars

\* The frame driver calls Update() once per frame for as long as the game runs
\* (spec 5), and a fade that runs lasts for its duration and then ends.
FairFade == SpecFade /\ WF_vars(Update) /\ WF_vars(FadeEnds)

\* Spec with the same scheduling.
FairSpec == Spec /\ WF_vars(Update) /\ WF_vars(FadeEnds)

\* The draw calls and the lookups assign no member, and the destructor ends the
\* run, so they are left out of Next: what Spec reaches is what the manager
\* reaches whatever is drawn or looked up between its calls. They are checked
\* on the stacks that requests without fades build.

\* The requests, the commit, the draw calls and the destructor.
NextDraw ==
    \/ \E gm \in NewModes : Push(gm, FALSE, FALSE)
    \/ Pop(FALSE, FALSE)
    \/ PopAll
    \/ SingletonInitialize
    \/ Update
    \/ Destructor
    \/ Draw
    \/ DrawEffects
    \/ DrawPostEffects

SpecDraw == Init /\ [][NextDraw]_vars

\* The requests, the commit and the lookups.
NextLookup ==
    \/ \E gm \in NewModes : Push(gm, FALSE, FALSE)
    \/ Pop(FALSE, FALSE)
    \/ Update
    \/ GetTop
    \/ \E index \in Indices : Get(index)
    \/ GetGameType
    \/ \E index \in Indices : GetGameTypeIndex(index)

SpecLookup == Init /\ [][NextLookup]_vars

----------------------------------------------------------------------------
\* What the claims speak of.

\* The last call was an Update() that committed.
Commit == op.name = "Update" /\ committed
\* The modes pushed, and the number of Pop calls, in a frame's requests.
PushedIn(f) == {f[i].arg : i \in {j \in 1..Len(f) : f[j].ev = "Push"}}
PopsIn(f) == Len(Only(f, "Pop"))
\* The frame holds Push and Pop calls only.
PushPopOnly(f) == ~Has(f, "PopAll") /\ ~Has(f, "SingletonInitialize")
\* The position of a mode on a stack, 0 if it is not on it.
Pos(s, m) == IF \E i \in 1..Len(s) : s[i] = m
             THEN CHOOSE i \in 1..Len(s) : s[i] = m ELSE 0

\* C1: the commit moves the pending modes onto the live stack in the order they
\* were enqueued: of two modes pushed before the commit the one pushed first
\* ends up below the other, and the mode pushed last is the new top.
C1_PushOrderKept ==
    Commit =>
        /\ \A i, j \in 1..Len(pre.push_stack) :
              i < j => /\ Pos(game_stack, pre.push_stack[i]) > 0
                       /\ Pos(game_stack, pre.push_stack[i])
                            < Pos(game_stack, pre.push_stack[j])
        /\ pre.push_stack # <<>> => Last(game_stack) = Last(pre.push_stack)

\* C2: Push, Pop and PopAll leave the live stack (and so its top) as it was;
\* what they change is the pending buffer, the pop counter and the flags.
C2_RequestsKeepLiveStack ==
    op.name \in {"Push", "Pop", "PopAll"} =>
        /\ game_stack = pre.game_stack
        /\ ~Has(trace, "Delete") /\ ~Has(trace, "Reset")
        /\ op.name = "Push" => push_stack = Append(pre.push_stack, op.gm)
        /\ op.name = "Pop" => pop_count = pre.pop_count + 1

\* A request made on a live stack of two modes.
C2_Witness ==
    /\ op.name \in {"Push", "Pop", "PopAll"}
    /\ Len(game_stack) >= 2
    /\ pop_count > 0

\* C3: with a live stack of depth d, N Pop calls and M Push calls since the last
\* commit (no PopAll), the commit leaves the bottom max(0, d-N) modes of the old
\* stack in their order, with the M pushed modes, none of them deleted, above.
C3_PopsBeforePushes ==
    (Commit /\ PushPopOnly(pre.frame)) =>
        LET d == Len(pre.game_stack)
            N == PopsIn(pre.frame)
            M == Cardinality(PushedIn(pre.frame))
            keep == Max(0, d - N)
        IN  /\ Len(game_stack) = keep + M
            /\ SubSeq(game_stack, 1, keep) = SubSeq(pre.game_stack, 1, keep)
            /\ {game_stack[i] : i \in (keep + 1)..(keep + M)} = PushedIn(pre.frame)
            /\ \A i \in 1..Len(trace) :
                  trace[i].ev = "Delete" => trace[i].arg \notin PushedIn(pre.frame)

\* A commit of a Pop made after a Push, on a live stack that keeps a mode.
C3_Witness ==
    /\ Commit
    /\ PushPopOnly(pre.frame)
    /\ Len(pre.frame) = 3
    /\ pre.frame[1].ev = "Push" /\ pre.frame[2].ev = "Pop" /\ pre.frame[3].ev = "Pop"
    /\ Len(pre.game_stack) = 2
    /\ Len(game_stack) = 1

\* What the transition subsystem reported to a call: a fade is running, and
\* the last fade was a transitional one and has ended.
FadeActive(s) == s.fading
FadeComplete(s) == s.lastTransitional /\ ~s.fading

C5_NoFadeCommitsNext ==
    /\ (op.name \in {"Push", "Pop"} /\ ~op.fade_out) =>
          /\ trace = <<>>
          /\ ~fade_out /\ fade_out_finished /\ state_change
    /\ (op.name = "Update" /\ pre.op.name \in {"Push", "Pop"} /\ ~pre.op.fade_out) =>
          committed
    /\ (/\ op.name = "Update"
        /\ pre.op.name = "Push" /\ ~pre.op.fade_out
        /\ pre.frame = <<Ev("Push", pre.op.gm)>>
        /\ pre.game_stack # <<>>) =>
          /\ game_stack = Append(pre.game_stack, pre.op.gm)
          /\ Only(trace, "Reset") = <<Ev("Reset", pre.op.gm)>>
          /\ ~Has(trace, "Delete")

\* The commit of a single Push without fades on a stack of one mode, made while
\* a fade is running.
C5_Witness ==
    /\ Commit
    /\ pre.op.name = "Push" /\ ~pre.op.fade_out /\ ~pre.op.fade_in
    /\ pre.frame = <<Ev("Push", pre.op.gm)>>
    /\ Len(pre.game_stack) = 1
    /\ pre.fading
    /\ Last(game_stack) = pre.op.gm

\* C6: an Update() that commits and leaves a mode on top calls Reset() once, on
\* that mode, which was not the top before; an Update() that commits nothing and
\* every other call reset no mode; so each mode has received as many Reset()
\* calls as there were commits that left it on top.
C6_ResetOncePerNewTop ==
    /\ (Commit /\ game_stack # <<>>) =>
          /\ Only(trace, "Reset") = <<Ev("Reset", Last(game_stack))>>
          /\ pre.game_stack = <<>> \/ Last(pre.game_stack) # Last(game_stack)
    /\ (Commit /\ game_stack = <<>>) =>
          \A i \in 1..Len(trace) : trace[i].ev = "Reset" => trace[i].arg \notin Modes
    /\ ~Commit => ~Has(trace, "Reset")
    /\ \A m \in Modes : resets[m] = tops[m]

\* A mode below the top that was reset twice: when pushed, and when the mode
\* above it was popped.
C6_Witness ==
    /\ Commit
    /\ Len(game_stack) >= 2
    /\ \E m \in Modes : resets[m] = 2 /\ m # game_stack[1] /\ Last(game_stack) = m

\* C7: every Update() calls Update() once on the mode that is on top when the
\* commit step is over, commit or not, and on no mode when the stack is empty;
\* no other call dispatches Update().
C7_TopUpdatedOnce ==
    /\ op.name = "Update" =>
          Only(trace, "Update")
            = IF game_stack = <<>> THEN <<>> ELSE <<Ev("Update", Last(game_stack))>>
    /\ op.name # "Update" => ~Has(trace, "Update")

\* An Update() that waits for the fade out with two modes on the live stack.
C7_Witness ==
    /\ op.name = "Update" /\ ~committed
    /\ state_change
    /\ Len(game_stack) >= 2
    /\ Has(trace, "Update")

\* C8: a commit that leaves the live stack empty asks the game to exit and stops
\* there: no Reset(), no access to the top of the empty stack, no fade in, no
\* timer call.
C8_EmptyCommitStops ==
    (Commit /\ game_stack = <<>>) =>
        /\ Has(trace, "ExitGame")
        /\ ~Has(trace, "Reset") /\ ~Has(trace, "InvalidAccess")
        /\ ~Has(trace, "FadeIn")
        /\ ~Has(trace, "ExamineSystemTimers") /\ ~Has(trace, "InitializeUpdateTimer")

\* C9: after an Update() that committed the live stack is not empty, or that
\* Update() asked the game to exit.
C9_EmptyCommitRequestsExit ==
    Commit => \/ game_stack # <<>> /\ ~Has(trace, "ExitGame")
              \/ game_stack = <<>> /\ Has(trace, "ExitGame") /\ exit_requested

\* The commit of a Pop of the only live mode.
C9_Witness ==
    /\ Commit
    /\ game_stack = <<>>
    /\ Len(pre.game_stack) = 1 /\ pre.pop_count = 1
    /\ ~pre.exit_requested

\* C10: a commit with more pops pending than modes live deletes every live mode,
\* reports the excess once, leaves the pop counter 0 and does not crash; with
\* nothing pushed the live stack is left empty and the game asked to exit.
C10_ExcessPopsDrain ==
    (Commit /\ pre.pop_count > Len(pre.game_stack)) =>
        /\ Len(Only(trace, "WarnExcessPop")) = 1
        /\ Only(trace, "Delete") = DeleteAll(pre.game_stack)
        /\ pop_count = 0
        /\ ~crashed
        /\ pre.push_stack = <<>> => game_stack = <<>> /\ exit_requested

\* The modes on a stack.
ModesOf(s) == {s[i] : i \in 1..Len(s)}
\* The Pop calls made after the first Push of a frame's requests.
PopsAfterPush(f) ==
    IF Has(f, "Push")
    THEN LET first == CHOOSE i \in 1..Len(f) :
                          f[i].ev = "Push" /\ \A j \in 1..(i - 1) : f[j].ev # "Push"
         IN  PopsIn(SubSeq(f, first + 1, Len(f)))
    ELSE 0

\* C11: PopAll() and then Update(), nothing else requested since the last
\* commit, empties the live stack in that Update() and asks the game to exit once.
C11_PopAllThenUpdateExits ==
    (/\ op.name = "Update"
     /\ pre.op.name = "PopAll"
     /\ pre.frame = <<Ev("PopAll", NULL)>>
     /\ pre.game_stack # <<>>) =>
        /\ game_stack = <<>>
        /\ Len(Only(trace, "ExitGame")) = 1

\* C12: PopAll() stores the depth of the live stack in the pop counter and
\* leaves the pending buffer alone; a commit of a frame with a PopAll() and
\* pushes deletes every mode that was live and leaves exactly the pushed modes.
C12_PopAllKeepsPushes ==
    /\ op.name = "PopAll" =>
          /\ pop_count = Len(game_stack)
          /\ push_stack = pre.push_stack
    /\ (/\ Commit
        /\ Has(pre.frame, "PopAll") /\ Has(pre.frame, "Push")
        /\ ~Has(pre.frame, "SingletonInitialize")) =>
          /\ ModesOf(game_stack) = PushedIn(pre.frame)
          /\ Len(game_stack) = Cardinality(PushedIn(pre.frame))
          /\ Only(trace, "Delete") = DeleteAll(pre.game_stack)
          /\ ~Has(trace, "WarnExcessPop") \/ Has(pre.frame, "Pop")

\* The commit of a PopAll() and a Push made on a live stack of two modes.
C12_Witness ==
    /\ Commit
    /\ Has(pre.frame, "PopAll") /\ Has(pre.frame, "Push")
    /\ ~Has(pre.frame, "SingletonInitialize") /\ ~Has(pre.frame, "Pop")
    /\ Len(pre.game_stack) = 2
    /\ Len(game_stack) = 1

\* A frame of Push and Pop calls only, with more Pop calls after its first
\* Push than there are live modes.
PushThenExcessPops(s) ==
    /\ PushPopOnly(s.frame)
    /\ Has(s.frame, "Push")
    /\ PopsAfterPush(s.frame) > Len(s.game_stack)

\* C17 as stated: a Push followed in the same frame by more Pop calls than the
\* live stack is deep leaves the live stack empty at the commit, which asks the
\* game to exit.
C17_PushThenExcessPopsExits ==
    (Commit /\ PushThenExcessPops(pre)) =>
        /\ game_stack = <<>>
        /\ Has(trace, "ExitGame")

\* C17 amended: such a commit deletes every mode that was live, reports the
\* excess once and leaves exactly the modes pushed in the frame on the live
\* stack; it does not ask the game to exit.
C17_PushSurvivesExcessPops ==
    (Commit /\ PushThenExcessPops(pre)) =>
        /\ ModesOf(game_stack) = PushedIn(pre.frame)
        /\ Len(game_stack) = Cardinality(PushedIn(pre.frame))
        /\ Only(trace, "Delete") = DeleteAll(pre.game_stack)
        /\ Len(Only(trace, "WarnExcessPop")) = 1
        /\ ~Has(trace, "ExitGame") /\ ~crashed

\* The commit of Push, Pop, Pop on a live stack of one mode.
C17_Witness ==
    /\ Commit
    /\ Len(pre.frame) = 3
    /\ pre.frame[1].ev = "Push" /\ pre.frame[2].ev = "Pop" /\ pre.frame[3].ev = "Pop"
    /\ Len(pre.game_stack) = 1
    /\ game_stack = <<pre.frame[1].arg>>

\* _fade_in holds the fade_in argument of the most recent Push or Pop.
FadeInRecorded ==
    /\ op.name \in {"Push", "Pop"} => fade_in = op.fade_in
    /\ op.name \notin {"Push", "Pop"} => fade_in = pre.fade_in

\* The last call started one fade in, of 800 or 0 after the recorded argument.
OneFadeIn ==
    Only(trace, "FadeIn") = <<Ev("FadeIn", IF pre.fade_in THEN 800 ELSE 0)>>

NothingPending ==
    /\ ~state_change /\ ~fade_out /\ ~fade_out_finished
    /\ pop_count = 0
    /\ push_stack = <<>>

Callbacks == {"Reset", "Update", "Draw", "DrawEffects", "DrawPostEffects"}
DrawCalls == {"Draw", "DrawEffects", "DrawPostEffects"}

\* C13: GetTop() and Get(index) throw nothing and return a mode of the live
\* stack or none, for the empty stack and for every index too, 0 and the values
\* above the depth included; GetTop() returns none exactly when the stack is empty.
C13_LookupsNeverThrow ==
    /\ op.name = "GetTop" =>
          trace = <<Ev("Return", IF game_stack = <<>> THEN NULL ELSE Last(game_stack))>>
    /\ op.name = "Get" =>
          /\ Len(trace) = 1
          /\ trace[1].ev = "Return"
          /\ trace[1].arg \in ModesOf(game_stack) \cup {NULL}

\* C14: GetGameType() returns the tag of the top mode, the dummy tag on the empty
\* stack; GetGameType(index) returns the tag of the mode at depth - index from
\* the bottom, and the dummy tag, without failing, where no mode is: at index 0
\* and at every index on the empty stack too.
C14_GameTypeLookups ==
    /\ op.name = "GetGameType" =>
          trace = <<Ev("ReturnType", IF game_stack = <<>> THEN MODE_MANAGER_DUMMY_MODE
                                     ELSE ModeType(Last(game_stack)))>>
    /\ op.name = "GetGameType(index)" =>
          LET pos == Len(game_stack) - op.index
          IN  trace = <<Ev("ReturnType", IF 0 <= pos /\ pos < Len(game_stack)
                                         THEN ModeType(game_stack[pos + 1])
                                         ELSE MODE_MANAGER_DUMMY_MODE)>>

\* C15: Draw(), DrawEffects() and DrawPostEffects() leave the live stack, the
\* pending buffer, the pop counter and the flags as they were, whatever is
\* pending; each forwards its call to the top mode and does nothing on the
\* empty stack.
C15_DrawsChangeNothing ==
    op.name \in DrawCalls =>
        /\ game_stack = pre.game_stack
        /\ push_stack = pre.push_stack
        /\ pop_count = pre.pop_count
        /\ state_change = pre.state_change
        /\ fade_out = pre.fade_out
        /\ fade_out_finished = pre.fade_out_finished
        /\ fade_in = pre.fade_in
        /\ exit_requested = pre.exit_requested
        /\ trace = IF pre.game_stack = <<>> THEN <<>>
                   ELSE <<Ev(op.name, Last(pre.game_stack))>>

\* A draw call after another draw call, with a Push and a Pop pending on a live
\* stack of two modes.
C15_Witness ==
    /\ op.name = "DrawPostEffects"
    /\ pre.op.name = "DrawEffects"
    /\ Len(game_stack) = 2
    /\ push_stack # <<>> /\ pop_count > 0
    /\ trace # <<>>

\* C16: each mode is pushed once, and a pushed mode has been deleted once if it
\* is in neither stack and never if it is in one; no mode is in both stacks or
\* twice in one; no callback goes to a deleted mode; SingletonInitialize and the
\* destructor leave both stacks empty and every pushed mode deleted.
C16_DeletedOnce ==
    /\ \A m \in Modes :
          deletes[m] = IF m \in pushed /\ m \notin ModesOf(game_stack) \cup ModesOf(push_stack)
                       THEN 1 ELSE 0
    /\ ModesOf(game_stack) \cap ModesOf(push_stack) = {}
    /\ Cardinality(ModesOf(game_stack)) = Len(game_stack)
    /\ Cardinality(ModesOf(push_stack)) = Len(push_stack)
    /\ \A i \in 1..Len(trace) :
          (trace[i].ev \in Callbacks /\ trace[i].arg \in Modes) => deletes[trace[i].arg] = 0
    /\ op.name \in {"~ModeEngine", "SingletonInitialize"} =>
          /\ game_stack = <<>> /\ push_stack = <<>>
          /\ \A m \in pushed : deletes[m] = 1

\* The destructor run with a mode live and a mode pending, after a commit
\* popped a third.
C16_Witness ==
    /\ op.name = "~ModeEngine"
    /\ pre.game_stack # <<>> /\ pre.push_stack # <<>>
    /\ \E m \in pushed : m \notin ModesOf(pre.game_stack) \cup ModesOf(pre.push_stack)
    /\ \A m \in Modes : deletes[m] = 1

\* C18: every Reset, Update, Draw, DrawEffects and DrawPostEffects goes to the
\* mode at the back of the live stack at the time, never to anything else.
C18_CallbacksToTopOnly ==
    /\ \A i \in 1..Len(trace) :
          trace[i].ev \in Callbacks =>
              game_stack # <<>> /\ trace[i].arg = Last(game_stack)
    /\ ~Has(trace, "InvalidAccess")

----------------------------------------------------------------------------
\* An Update() whose callback into the top mode made a request, and the
\* position in its trace of the callback.
Nested == op.name \in {"Update>Push", "Update>Pop"}
CallbackAt(t) == CHOOSE i \in 1..Len(t) : t[i].ev = "Update"

\* C21: a Push or Pop made from inside the top mode's Update() during
\* ModeEngine::Update() is not applied inline: the live stack stays as it was
\* when the callback began until the call returns, the calling mode is not
\* deleted while its Update() runs, the request is pending when the call
\* returns, and the commit of a later Update() is what applies it.
C21_NestedRequestDeferred ==
    /\ Nested =>
          /\ Len(Only(trace, "Update")) = 1
          /\ LET k == CallbackAt(trace)
                 caller == trace[k].arg
                 deleted == {trace[i].arg : i \in {j \in 1..k : trace[j].ev = "Delete"}}
             IN  /\ game_stack # <<>> /\ Last(game_stack) = caller
                 /\ \A i \in (k + 1)..Len(trace) :
                       trace[i].ev \notin {"Delete", "Reset"}
                 /\ ~committed => game_stack = pre.game_stack
                 /\ committed =>
                       /\ ModesOf(game_stack) =
                            (ModesOf(pre.game_stack) \ deleted) \cup ModesOf(pre.push_stack)
                       /\ Len(game_stack) = Len(pre.game_stack) - Cardinality(deleted)
                                              + Len(pre.push_stack)
                 /\ \A m \in ModesOf(game_stack) : deletes[m] = 0
          /\ state_change
          /\ op.name = "Update>Push" =>
                /\ push_stack # <<>> /\ Last(push_stack) = op.gm
                /\ op.gm \notin ModesOf(game_stack)
          /\ op.name = "Update>Pop" =>
                pop_count = (IF committed THEN 0 ELSE pre.pop_count) + 1
    /\ (Commit /\ pre.op.name = "Update>Push" /\ Len(pre.frame) = 1) =>
          /\ game_stack = Append(pre.game_stack, pre.op.gm)
          /\ Only(trace, "Reset") = <<Ev("Reset", pre.op.gm)>>
    /\ (Commit /\ pre.op.name = "Update>Pop" /\ Len(pre.frame) = 1) =>
          /\ game_stack = Front(pre.game_stack)
          /\ Only(trace, "Delete") = <<Ev("Delete", Last(pre.game_stack))>>

\* The Update() that commits the Pop which the top mode of a stack of two made
\* from its Update(), in an Update() that had itself committed a Push.
C21_Witness ==
    /\ Commit
    /\ pre.op.name = "Update>Pop" /\ pre.committed
    /\ Len(pre.frame) = 1
    /\ Len(pre.game_stack) = 2
    /\ Len(game_stack) = 1

----------------------------------------------------------------------------
\* C22: a pending Push or Pop is never dropped: with Update() called again and
\* again and every fade ending, a pending state change is followed by an
\* Update() that commits.
C22_PendingEventuallyCommitted == state_change ~> committed

----------------------------------------------------------------------------
\* C23: the flags are those of the most recent Push or Pop, whatever the
\* requests before it asked for: after a request without fade_out the next
\* Update() commits everything accumulated, even while an earlier fade runs;
\* after a request with fade_out, an Update() called while the fade runs
\* commits nothing, the earlier requests without fade included.
C23_FlagsOfLastRequest ==
    /\ op.name \in {"Push", "Pop"} =>
          /\ fade_out = op.fade_out
          /\ fade_out_finished = ~op.fade_out
          /\ fade_in = op.fade_in
    /\ (op.name = "Update" /\ pre.op.name \in {"Push", "Pop"} /\ ~pre.op.fade_out) =>
          /\ committed
          /\ push_stack = <<>> /\ pop_count = 0
          /\ \A m \in ModesOf(pre.push_stack) :
                crashed \/ m \in ModesOf(game_stack)
    /\ (/\ op.name = "Update"
        /\ pre.op.name \in {"Push", "Pop"} /\ pre.op.fade_out
        /\ pre.fading) =>
          /\ ~committed
          /\ game_stack = pre.game_stack
          /\ push_stack = pre.push_stack
          /\ pop_count = pre.pop_count

\* The first commit of a run, made while a fade runs, of three requests of which
\* the last asked for no fade out: no commit has started a fade in before it, so
\* the fade running is the fade out an earlier request of the frame started.
C23_Witness ==
    /\ Commit
    /\ pre.op.name \in {"Push", "Pop"} /\ ~pre.op.fade_out
    /\ Len(pre.frame) = 3 /\ PushPopOnly(pre.frame)
    /\ pre.fading /\ pre.lastTransitional
    /\ ~exit_requested
    /\ \A m \in Modes : tops[m] = (IF game_stack # <<>> /\ m = Last(game_stack) THEN 1 ELSE 0)

\* C24: SingletonInitialize() deletes every mode of the live stack and of the
\* pending buffer, leaves both empty and the pop counter 0, and leaves the
\* state-change flag and the three fade flags as they were: a state change
\* requested before the call is still pending after it.
C24_SingletonInitializeKeepsFlags ==
    op.name = "SingletonInitialize" =>
        /\ game_stack = <<>> /\ push_stack = <<>> /\ pop_count = 0
        /\ Len(trace) = Len(pre.game_stack) + Len(pre.push_stack)
        /\ {trace[i].arg : i \in {j \in 1..Len(trace) : trace[j].ev = "Delete"}}
             = ModesOf(pre.game_stack) \cup ModesOf(pre.push_stack)
        /\ Len(Only(trace, "Delete")) = Len(trace)
        /\ state_change = pre.state_change
        /\ fade_out = pre.fade_out
        /\ fade_out_finished = pre.fade_out_finished
        /\ fade_in = pre.fade_in

\* SingletonInitialize() called with a mode live, a mode pending, a Pop counted
\* and the fade out of the last request awaited.
C24_Witness ==
    /\ op.name = "SingletonInitialize"
    /\ pre.game_stack # <<>> /\ pre.push_stack # <<>> /\ pre.pop_count > 0
    /\ state_change /\ fade_out

----------------------------------------------------------------------------
\* The last call on the window was an Update() made in the given state.
UpdateIn(state) ==
    wop.name = "Update" /\ wpre.active /\ wpre.skillgraph_state = state
\* Confirm pressed alone.
ConfirmOnly(input) ==
    input.confirm /\ ~input.cancel /\ ~input.up /\ ~input.down

\* C25: a confirm in the node list on a node that the selected character has
\* obtained is rejected with the bump sound and AddObtainedSkillNode is not
\* called, whatever the order of the character's list of obtained nodes.
C25_ObtainedNodeNotBoughtAgain ==
    (/\ UpdateIn(SKILLGRAPH_STATE_LIST)
     /\ wop.input.confirm /\ ~wop.input.cancel
     /\ isNodeWithin(GlobalManager.obtained, wpre.selected_node_id)) =>
        /\ ~Has(wtrace, "AddObtainedSkillNode")
        /\ wtrace = Bump

\* C26: the window is inactive exactly when its state is NONE; SetActive(true)
\* enters CHAR; cancel in CHAR deactivates the window; confirm in CHAR enters
\* LIST only when a character is found; cancel in LIST returns to CHAR; LIST is
\* never entered from NONE; Update() on an inactive window changes nothing.
C26_ActiveMatchesState ==
    /\ active <=> skillgraph_state # SKILLGRAPH_STATE_NONE
    /\ (wop.name = "SetActive" /\ wop.is_active_state) =>
          active /\ skillgraph_state = SKILLGRAPH_STATE_CHAR
    /\ (wop.name = "SetActive" /\ ~wop.is_active_state) =>
          ~active /\ skillgraph_state = SKILLGRAPH_STATE_NONE
    /\ (UpdateIn(SKILLGRAPH_STATE_CHAR) /\ wop.input.cancel) =>
          ~active /\ skillgraph_state = SKILLGRAPH_STATE_NONE
    /\ (UpdateIn(SKILLGRAPH_STATE_CHAR) /\ skillgraph_state = SKILLGRAPH_STATE_LIST) =>
          ConfirmOnly(wop.input) /\ selected_character # NULL
    /\ (UpdateIn(SKILLGRAPH_STATE_CHAR) /\ ConfirmOnly(wop.input)) =>
          /\ selected_character = NULL => skillgraph_state = SKILLGRAPH_STATE_CHAR
          /\ selected_character # NULL => skillgraph_state = SKILLGRAPH_STATE_LIST
    /\ (UpdateIn(SKILLGRAPH_STATE_LIST) /\ wop.input.cancel) =>
          active /\ skillgraph_state = SKILLGRAPH_STATE_CHAR
    /\ skillgraph_state = SKILLGRAPH_STATE_LIST =>
          wpre.skillgraph_state # SKILLGRAPH_STATE_NONE
    /\ (wop.name = "Update" /\ ~wpre.active) =>
          WindowSnapshot = wpre /\ wtrace = <<>>

\* Cancel in LIST, the list having been entered by a confirm in CHAR that found
\* the character: the window is back in CHAR and active.
C26_Witness ==
    /\ UpdateIn(SKILLGRAPH_STATE_LIST)
    /\ wop.input.cancel
    /\ selected_character = TheCharacter
    /\ skillgraph_state = SKILLGRAPH_STATE_CHAR

----------------------------------------------------------------------------
\* C27: _fade_out and _fade_out_finished are never both true.
C27_FadeFlagsExclusive == ~(fade_out /\ fade_out_finished)

\* An Update() that found the awaited fade out over and committed, after an
\* Update() that found it running: _fade_out was true, then _fade_out_finished
\* inside the call, and both are false after the commit.
C27_Witness ==
    /\ Commit
    /\ pre.fade_out /\ ~pre.fade_out_finished
    /\ ~fade_out /\ ~fade_out_finished
    /\ pre.op.name = "Update" /\ ~pre.committed

====
